---- MODULE Spec2Model ----
(***************************************************************************)
(* Model of src/watcher/watcher.py: the alert cooldown gate (AlertManager), *)
(* the pool tracker (PoolTracker), the sliding error window                 *)
(* (ErrorRateMonitor) and the per-event decision procedure                  *)
(* (LogWatcher.process_log_entry).                                          *)
(*                                                                          *)
(* Time is counted in whole clock ticks; the configured cooldown is a       *)
(* number of ticks.  An Optional value is a tuple: <<>> is None and <<x>>   *)
(* is the value x.  A dict is a function whose DOMAIN is its key set.       *)
(***************************************************************************)
EXTENDS Integers, Sequences, FiniteSets

\* ---------------------------------------------------------------- bounds
\* cooldown_seconds is configuration (ALERT_COOLDOWN_SEC); scaled down.
CooldownSeconds == 1
\* The clock stops advancing at MaxTime.
MaxTime == 2
\* Threads that call AlertManager.should_alert directly.
NumThreads == 2
\* Completed should_alert calls kept in the call log.
MaxCalls == 4

\* PoolTracker.update_pool calls that pass a valid pool.
MaxAccepted == 12
\* window_size is configuration (WINDOW_SIZE); scaled down.
WindowSize == 100
\* ErrorRateMonitor.add_request calls.
MaxAdds == 102
\* window_size of the LogWatcher whose events are processed.
LogWindowSize == 52
\* The first LogWarmLen log entries are healthy requests that name no pool.
LogWarmLen == 48
\* process_log_entry calls after these.
MaxEvents == 3
\* The status codes of the first HeadLen requests are free, then only
\* status 200 arrives until WarmLen requests were added, then they are free.
HeadLen == 2
WarmLen == 97

\* window_size of the monitor whose statistics are read while requests are added.
StatsWindowSize == 3
\* add_request calls made while the statistics are read.
MaxStatAdds == 5
\* Threads that call process_log_entry at the same time.
NumIngest == 2
\* The entries these threads process: the first IngestHead are free, then
\* healthy requests that name no pool arrive until IngestWarm entries were
\* taken, then free entries until MaxIngest.
IngestHead == 1
IngestWarm == 49
MaxIngest == 51

\* Entries that name a pool, processed from the start.
MaxPoolEvents == 5

\* ------------------------------------------------------ program constants
\* line 90: if len(self.requests) < 50
MinSamples == 50
\* line 93: status >= 500
ErrorStatus == 500
\* line 226: ERROR_RATE_THRESHOLD default
ThresholdPercent == 2
\* line 53: deque(maxlen=10)
PoolHistoryLen == 10

Threads == 1..NumThreads
IngestThreads == 1..NumIngest
AlertKinds == {"error_rate", "failover"}

\* Strings are tuples of characters.
Blue == <<"b", "l", "u", "e">>
Green == <<"g", "r", "e", "e", "n">>
Yellow == <<"y", "e", "l", "l", "o", "w">>
\* None where a string is expected: a tuple that is no string
PyNone == <<"None">>
\* Python truth of an Optional[str]: neither None nor ''
Truthy(v) == v # PyNone /\ v # <<>>

VARIABLES
    now,          \* the wall clock read by datetime.now()
    last_alerts,  \* AlertManager.last_alerts: dict kind -> time
    gate_lock,    \* AlertManager.lock: 0 when free, else the holding thread
    pc,           \* per thread: position inside should_alert
    t_kind,       \* per thread: the alert_type argument
    t_now,        \* per thread: the local `now`
    t_last,       \* per thread: the local `last_time`
    t_contended,  \* per thread: the lock was held by another thread at call time
    gate_calls,   \* log of the should_alert calls, in completion order; when the
                  \* events are processed one after the other, those of the last event
    current_pool,     \* PoolTracker.current_pool
    last_seen_pools,  \* PoolTracker.last_seen_pools: deque(maxlen=10)
    pool_arg,         \* the argument of the update_pool call of the last step
    pool_ret,         \* the value the update_pool call of the last step returned
    accepted,         \* history: the valid pools passed to update_pool so far
    window_size,      \* ErrorRateMonitor.window_size
    requests,         \* ErrorRateMonitor.requests: deque(maxlen=window_size)
    added,            \* history: every status code passed to add_request
    add_ret,          \* the value the add_request call of the last step returned
    stats,            \* the value the get_current_stats call of the last step returned
    slack_enabled,    \* LogWatcher.slack_notifier is not None
    entry,            \* the log entry process_log_entry was last called with
    n_events,         \* history: the number of process_log_entry calls
    dropped,          \* the last process_log_entry call ended in its except clause
    intents,          \* history: the alerts raised, in order
    send_attempts,    \* history: the number of requests.post calls
    mon_lock,     \* ErrorRateMonitor.lock: "free", or the thread holding it
    w_pc,         \* the thread calling add_request: its position in the call
    w_code,       \* that thread's status_code argument
    r_pc,         \* the thread calling get_current_stats: its position in the call
    r_errors,     \* that thread's local error_count
    r_total,      \* that thread's local total_count
    snap_lo,      \* history: the number of appends done when get_current_stats was called
    snap_hi,      \* history: the number of appends done when it returned
    p_pc,         \* per ingestion thread: position inside process_log_entry
    p_status,     \* per ingestion thread: the local status_code
    p_pool,       \* per ingestion thread: the local pool
    p_prev,       \* per ingestion thread: the local previous_pool
    p_event,      \* per ingestion thread: history, the number of its event
    p_at          \* per ingestion thread: history, the time its should_alert('error_rate') fired

poolVars == <<current_pool, last_seen_pools, pool_arg, pool_ret, accepted>>
monVars == <<window_size, requests, added, add_ret, stats>>
watcherVars == <<slack_enabled, entry, n_events, dropped, intents, send_attempts>>
gateVars == <<last_alerts, gate_lock, pc, t_kind, t_now, t_last, t_contended, gate_calls>>
statVars == <<mon_lock, w_pc, w_code, r_pc, r_errors, r_total, snap_lo, snap_hi>>
ingestVars == <<p_pc, p_status, p_pool, p_prev, p_event, p_at>>
concVars == <<statVars, ingestVars>>
vars == <<now, gateVars, poolVars, monVars, watcherVars, concVars>>

\* ------------------------------------------------------- AlertManager
\* faulty variant: the cooldown test admits a call at exactly the cooldown
CooldownExpired_AtBoundary(n, last) == n - last >= CooldownSeconds

\* line 42: now - last_time > timedelta(seconds=self.cooldown_seconds)
CooldownExpired(n, last) == n - last > CooldownSeconds

\* line 36: self.last_alerts.get(alert_type)
DictGet(map, key) == IF key \in DOMAIN map THEN <<map[key]>> ELSE <<>>

\* faulty variant: one timestamp is kept for all alert kinds
DictSet_AllKinds(map, key, val) == [k \in AlertKinds |-> val]

\* lines 39, 43: self.last_alerts[alert_type] = now
DictSet(map, key, val) ==
    [k \in DOMAIN map \cup {key} |-> IF k = key THEN val ELSE map[k]]

\* lines 38-46: the value should_alert returns for the values it read
ShouldAlertRet(n, last) == (last = <<>>) \/ CooldownExpired(n, last[1])

\* faulty variant: the time of every call is recorded, fired or not
RecordedMap_EveryCall(map, kind, n, ret) == DictSet(map, kind, n)

\* lines 39, 43, 46: self.last_alerts after a call that returns ret: the
\* timestamp is written on the two paths that return True only
RecordedMap(map, kind, n, ret) == IF ret THEN DictSet(map, kind, n) ELSE map

\* faulty variant: the firing is not recorded
ShouldAlertMap_NoRecord(map, kind, n) == map

\* lines 38-46: the map after the call (written only when it returns True)
ShouldAlertMap(map, kind, n) ==
    RecordedMap(map, kind, n, ShouldAlertRet(n, DictGet(map, kind)))

\* faulty variant: should_alert runs without taking the lock
LockAvailable_NoLock == TRUE

\* line 34: `with self.lock` admits a thread only while no thread holds it
LockAvailable == gate_lock = 0

GateInit ==
    /\ last_alerts = [k \in {} |-> 0]
    /\ gate_lock = 0
    /\ pc = [t \in Threads |-> "idle"]
    /\ t_kind = [t \in Threads |-> "none"]
    /\ t_now = [t \in Threads |-> 0]
    /\ t_last = [t \in Threads |-> <<>>]
    /\ t_contended = [t \in Threads |-> FALSE]
    /\ gate_calls = <<>>

\* line 32: a thread calls should_alert(kind) and reaches `with self.lock`
SA_Call(t, k) ==
    /\ pc[t] = "idle"
    /\ Len(gate_calls) + Cardinality({u \in Threads : pc[u] # "idle"}) < MaxCalls
    /\ pc' = [pc EXCEPT ![t] = "wait"]
    /\ t_kind' = [t_kind EXCEPT ![t] = k]
    /\ t_contended' = [t_contended EXCEPT ![t] = gate_lock # 0]
    /\ UNCHANGED <<now, last_alerts, gate_lock, t_now, t_last, gate_calls>>
    /\ UNCHANGED <<poolVars, monVars, watcherVars, concVars>>

\* line 34: the lock is acquired
SA_Acquire(t) ==
    /\ pc[t] = "wait"
    /\ LockAvailable
    /\ gate_lock' = t
    /\ pc' = [pc EXCEPT ![t] = "read"]
    /\ UNCHANGED <<now, last_alerts, t_kind, t_now, t_last, t_contended, gate_calls>>
    /\ UNCHANGED <<poolVars, monVars, watcherVars, concVars>>

\* lines 35-36: now = datetime.now(); last_time = self.last_alerts.get(alert_type)
SA_Read(t) ==
    /\ pc[t] = "read"
    /\ t_now' = [t_now EXCEPT ![t] = now]
    /\ t_last' = [t_last EXCEPT ![t] = DictGet(last_alerts, t_kind[t])]
    /\ pc' = [pc EXCEPT ![t] = "check"]
    /\ UNCHANGED <<now, last_alerts, gate_lock, t_kind, t_contended, gate_calls>>
    /\ UNCHANGED <<poolVars, monVars, watcherVars, concVars>>

\* lines 38-46: decide, record the timestamp when firing, return, release the lock
SA_Decide(t) ==
    /\ pc[t] = "check"
    /\ last_alerts' = RecordedMap(last_alerts, t_kind[t], t_now[t],
                                   ShouldAlertRet(t_now[t], t_last[t]))
    /\ gate_calls' = Append(gate_calls,
                            [at |-> t_now[t], contended |-> t_contended[t],
                             kind |-> t_kind[t],
                             ret |-> ShouldAlertRet(t_now[t], t_last[t])])
    /\ gate_lock' = IF gate_lock = t THEN 0 ELSE gate_lock
    /\ pc' = [pc EXCEPT ![t] = "idle"]
    /\ t_kind' = [t_kind EXCEPT ![t] = "none"]
    /\ t_now' = [t_now EXCEPT ![t] = 0]
    /\ t_last' = [t_last EXCEPT ![t] = <<>>]
    /\ t_contended' = [t_contended EXCEPT ![t] = FALSE]
    /\ UNCHANGED <<now, poolVars, monVars, watcherVars, concVars>>

\* the clock advances (non-decreasing)
Tick ==
    /\ now < MaxTime
    /\ now' = now + 1
    /\ UNCHANGED <<gateVars, poolVars, monVars, watcherVars, concVars>>

GateNext ==
    \/ Tick
    \/ \E t \in Threads, k \in AlertKinds : SA_Call(t, k)
    \/ \E t \in Threads : SA_Acquire(t)
    \/ \E t \in Threads : SA_Read(t)
    \/ \E t \in Threads : SA_Decide(t)

\* -------------------------------------------------------- PoolTracker
ValidPools == {Blue, Green}

\* faulty variant: the deque never drops an item
DequeAppend_Unbounded(q, x, maxlen) == Append(q, x)

\* collections.deque(maxlen=n).append(x): a full deque drops its oldest item
DequeAppend(q, x, maxlen) ==
    IF maxlen = 0 THEN q
    ELSE IF Len(q) >= maxlen THEN Append(Tail(q), x)
    ELSE Append(q, x)

\* faulty variant: every non-empty string is taken as a pool
PoolAccepted_AnyString(pool) == Truthy(pool)

\* lines 58-59, 65: the call changes the tracker
PoolAccepted(pool) == Truthy(pool) /\ pool \in ValidPools

\* lines 62-66: self.current_pool after the call
UpdatePoolCurrent(pool, cur) == IF PoolAccepted(pool) THEN pool ELSE cur

\* faulty variant: a pool is appended only when it differs from the newest entry
UpdatePoolSeen_OnChangeOnly(pool, seen) ==
    IF PoolAccepted(pool) /\ (seen = <<>> \/ seen[Len(seen)] # pool)
    THEN DequeAppend(seen, pool, PoolHistoryLen) ELSE seen

\* line 67: self.last_seen_pools after the call
UpdatePoolSeen(pool, seen) ==
    IF PoolAccepted(pool) THEN DequeAppend(seen, pool, PoolHistoryLen) ELSE seen

\* faulty variant: the previous pool is returned also when the pool did not change
UpdatePoolRet_NoChangeTest(pool, cur) ==
    IF PoolAccepted(pool) /\ Truthy(cur) THEN cur ELSE PyNone

\* lines 58-73: the value update_pool returns
UpdatePoolRet(pool, cur) ==
    IF PoolAccepted(pool) /\ Truthy(cur) /\ cur # pool THEN cur ELSE PyNone

PoolInit ==
    /\ current_pool = PyNone
    /\ last_seen_pools = <<>>
    /\ pool_arg = PyNone
    /\ pool_ret = PyNone
    /\ accepted = <<>>

\* lines 56-73: one call of update_pool(pool)
UpdatePool(pool) ==
    /\ pool \in ValidPools => Len(accepted) < MaxAccepted
    /\ current_pool' = UpdatePoolCurrent(pool, current_pool)
    /\ last_seen_pools' = UpdatePoolSeen(pool, last_seen_pools)
    /\ pool_ret' = UpdatePoolRet(pool, current_pool)
    /\ pool_arg' = pool
    /\ accepted' = IF pool \in ValidPools THEN Append(accepted, pool) ELSE accepted
    /\ UNCHANGED <<now, gateVars, monVars, watcherVars, concVars>>

\* the arguments update_pool is called with
PoolArgs == {PyNone, <<>>, Blue, Green, Yellow, <<"B", "l", "u", "e">>}

PoolNext == \E pool \in PoolArgs : UpdatePool(pool)

\* --------------------------------------------------- ErrorRateMonitor
\* lines 93, 104: sum(1 for status in self.requests if status >= 500)
ErrorCount(q) == Cardinality({i \in 1..Len(q) : q[i] >= ErrorStatus})

\* lines 94, 96: (error_count / len) * 100 > threshold_percent.  For the
\* threshold 2.0 and every window of fewer than 260 entries the float
\* comparison agrees with this exact one.
RateExceeds(errors, total) == errors * 100 > ThresholdPercent * total

\* faulty variant: a breach is reported only by the request that starts it
AddRequestRet_EdgeTriggered(q) ==
    IF Len(q) < MinSamples THEN FALSE
    ELSE /\ RateExceeds(ErrorCount(q), Len(q))
         /\ ~(/\ Len(q) > MinSamples
              /\ RateExceeds(ErrorCount(SubSeq(q, 1, Len(q) - 1)), Len(q) - 1))

\* faulty variant: the rate is evaluated without the floor of 50 requests
AddRequestRet_NoFloor(q) == RateExceeds(ErrorCount(q), Len(q))

\* faulty variant: a rate equal to the threshold counts as a breach
AddRequestRet_AtThreshold(q) ==
    IF Len(q) < MinSamples THEN FALSE
    ELSE ErrorCount(q) * 100 >= ThresholdPercent * Len(q)

\* lines 90-96: the value add_request returns for the window after the append
AddRequestRet(q) ==
    IF Len(q) < MinSamples THEN FALSE ELSE RateExceeds(ErrorCount(q), Len(q))

\* line 111: round(error_rate, 2), in hundredths of a percent.  Python rounds
\* the float to the nearest with ties to even; for every window of fewer than
\* 160 entries that is the exact quotient rounded so.
RoundedRate(errors, total) ==
    LET q == (errors * 10000) \div total
        r == (errors * 10000) % total
    IN  IF 2 * r > total \/ (2 * r = total /\ q % 2 = 1) THEN q + 1 ELSE q

\* lines 100-112: the value get_current_stats returns
CurrentStats(q) ==
    IF q = <<>> THEN [error_rate |-> 0, errors |-> 0, total |-> 0]
    ELSE [error_rate |-> RoundedRate(ErrorCount(q), Len(q)),
          errors |-> ErrorCount(q), total |-> Len(q)]

\* no call of get_current_stats was made yet
NoStats == [error_rate |-> -1, errors |-> -1, total |-> -1]

MonInit ==
    /\ requests = <<>>
    /\ added = <<>>
    /\ add_ret = FALSE
    /\ stats = NoStats

\* lines 84-96: one call of add_request(status_code)
AddRequest(code) ==
    /\ Len(added) < MaxAdds
    /\ (Len(added) >= HeadLen /\ Len(added) < WarmLen) => code = 200
    /\ requests' = DequeAppend(requests, code, window_size)
    /\ add_ret' = AddRequestRet(requests')
    /\ added' = Append(added, code)
    /\ stats' = NoStats
    /\ UNCHANGED <<now, gateVars, poolVars, watcherVars, window_size, concVars>>

\* lines 98-112: one call of get_current_stats()
GetCurrentStats ==
    /\ stats = NoStats
    /\ stats' = CurrentStats(requests)
    /\ UNCHANGED <<now, gateVars, poolVars, watcherVars, window_size, requests, added, add_ret, concVars>>

\* the status codes add_request is called with
StatusCodes == {200, 499, 500}

MonNext ==
    \/ \E code \in StatusCodes : AddRequest(code)
    \/ GetCurrentStats

\* ------------------------- ErrorRateMonitor, one statement at a time
\* faulty variant: the monitor's methods run without taking the lock
MonLockAvailable_NoLock == TRUE

\* lines 86, 100: `with self.lock` admits a thread only while no thread holds it
MonLockAvailable == mon_lock = "free"

\* the lock after the thread th left its `with` block
MonRelease(th) == IF mon_lock = th THEN "free" ELSE mon_lock

StatInit ==
    /\ mon_lock = "free"
    /\ w_pc = "idle"
    /\ w_code = 0
    /\ r_pc = "idle"
    /\ r_errors = 0
    /\ r_total = 0
    /\ snap_lo = 0
    /\ snap_hi = 0

\* line 84: a thread calls add_request(code) and reaches `with self.lock`
AR_Call(code) ==
    /\ w_pc = "idle"
    /\ Len(added) < MaxStatAdds
    /\ w_pc' = "wait"
    /\ w_code' = code
    /\ UNCHANGED <<mon_lock, r_pc, r_errors, r_total, snap_lo, snap_hi>>
    /\ UNCHANGED <<now, gateVars, poolVars, monVars, watcherVars, ingestVars>>

\* line 86: the lock is acquired
AR_Acquire ==
    /\ w_pc = "wait"
    /\ MonLockAvailable
    /\ mon_lock' = "w"
    /\ w_pc' = "append"
    /\ UNCHANGED <<w_code, r_pc, r_errors, r_total, snap_lo, snap_hi>>
    /\ UNCHANGED <<now, gateVars, poolVars, monVars, watcherVars, ingestVars>>

\* line 87: self.requests.append(status_code); the deque appends and evicts
\* in one operation
AR_Append ==
    /\ w_pc = "append"
    /\ requests' = DequeAppend(requests, w_code, window_size)
    /\ added' = Append(added, w_code)
    /\ w_pc' = "check"
    /\ UNCHANGED <<mon_lock, w_code, r_pc, r_errors, r_total, snap_lo, snap_hi>>
    /\ UNCHANGED <<now, gateVars, poolVars, watcherVars, ingestVars>>
    /\ UNCHANGED <<window_size, add_ret, stats>>

\* lines 90-96: the floor, the rate, the return value; the lock is released
AR_Return ==
    /\ w_pc = "check"
    /\ add_ret' = AddRequestRet(requests)
    /\ mon_lock' = MonRelease("w")
    /\ w_pc' = "idle"
    /\ w_code' = 0
    /\ UNCHANGED <<r_pc, r_errors, r_total, snap_lo, snap_hi>>
    /\ UNCHANGED <<now, gateVars, poolVars, watcherVars, ingestVars>>
    /\ UNCHANGED <<window_size, requests, added, stats>>

\* line 98: a thread calls get_current_stats() and reaches `with self.lock`
GS_Call ==
    /\ r_pc = "idle"
    /\ r_pc' = "wait"
    /\ stats' = NoStats
    /\ snap_lo' = Len(added)
    /\ snap_hi' = Len(added)
    /\ UNCHANGED <<mon_lock, w_pc, w_code, r_errors, r_total>>
    /\ UNCHANGED <<now, gateVars, poolVars, watcherVars, ingestVars>>
    /\ UNCHANGED <<window_size, requests, added, add_ret>>

\* line 100: the lock is acquired
GS_Acquire ==
    /\ r_pc = "wait"
    /\ MonLockAvailable
    /\ mon_lock' = "r"
    /\ r_pc' = "empty"
    /\ UNCHANGED <<w_pc, w_code, r_errors, r_total, snap_lo, snap_hi>>
    /\ UNCHANGED <<now, gateVars, poolVars, monVars, watcherVars, ingestVars>>

\* lines 101-102: if not self.requests: return the zeroed statistics
GS_Empty ==
    /\ r_pc = "empty"
    /\ IF requests = <<>>
       THEN /\ stats' = [error_rate |-> 0, errors |-> 0, total |-> 0]
            /\ snap_hi' = Len(added)
            /\ mon_lock' = MonRelease("r")
            /\ r_pc' = "idle"
       ELSE /\ r_pc' = "count"
            /\ UNCHANGED <<stats, snap_hi, mon_lock>>
    /\ UNCHANGED <<w_pc, w_code, r_errors, r_total, snap_lo>>
    /\ UNCHANGED <<now, gateVars, poolVars, watcherVars, ingestVars>>
    /\ UNCHANGED <<window_size, requests, added, add_ret>>

\* line 104: error_count = sum(1 for status in self.requests if status >= 500)
GS_Count ==
    /\ r_pc = "count"
    /\ r_errors' = ErrorCount(requests)
    /\ r_pc' = "len"
    /\ UNCHANGED <<mon_lock, w_pc, w_code, r_total, snap_lo, snap_hi>>
    /\ UNCHANGED <<now, gateVars, poolVars, monVars, watcherVars, ingestVars>>

\* line 105: total_count = len(self.requests)
GS_Len ==
    /\ r_pc = "len"
    /\ r_total' = Len(requests)
    /\ r_pc' = "ret"
    /\ UNCHANGED <<mon_lock, w_pc, w_code, r_errors, snap_lo, snap_hi>>
    /\ UNCHANGED <<now, gateVars, poolVars, monVars, watcherVars, ingestVars>>

\* lines 106-112: the rate, the returned dict; the lock is released
GS_Return ==
    /\ r_pc = "ret"
    /\ stats' = [error_rate |-> RoundedRate(r_errors, r_total),
                 errors |-> r_errors, total |-> r_total]
    /\ snap_hi' = Len(added)
    /\ mon_lock' = MonRelease("r")
    /\ r_pc' = "idle"
    /\ r_errors' = 0
    /\ r_total' = 0
    /\ UNCHANGED <<w_pc, w_code, snap_lo>>
    /\ UNCHANGED <<now, gateVars, poolVars, watcherVars, ingestVars>>
    /\ UNCHANGED <<window_size, requests, added, add_ret>>

StatNext ==
    \/ \E code \in {200, 500} : AR_Call(code)
    \/ AR_Acquire
    \/ AR_Append
    \/ AR_Return
    \/ GS_Call
    \/ GS_Acquire
    \/ GS_Empty
    \/ GS_Count
    \/ GS_Len
    \/ GS_Return

\* the ingestion threads before their first event
IngestInit ==
    /\ p_pc = [t \in IngestThreads |-> "idle"]
    /\ p_status = [t \in IngestThreads |-> 0]
    /\ p_pool = [t \in IngestThreads |-> <<>>]
    /\ p_prev = [t \in IngestThreads |-> PyNone]
    /\ p_event = [t \in IngestThreads |-> 0]
    /\ p_at = [t \in IngestThreads |-> 0]

\* ---------------------------------------------------------- LogWatcher
\* A field of a decoded log entry: absent, an integer, a string (a tuple of
\* characters) or JSON null.
Absent == [int |-> 0, str |-> <<>>, tag |-> "absent"]
IntField(n) == [int |-> n, str |-> <<>>, tag |-> "int"]
StrField(chars) == [int |-> 0, str |-> chars, tag |-> "str"]
NullField == [int |-> 0, str |-> <<>>, tag |-> "null"]

Digits == {"0", "1", "2", "3", "4", "5", "6", "7", "8", "9"}
DigitValue(c) ==
    CASE c = "0" -> 0 [] c = "1" -> 1 [] c = "2" -> 2 [] c = "3" -> 3 [] c = "4" -> 4
      [] c = "5" -> 5 [] c = "6" -> 6 [] c = "7" -> 7 [] c = "8" -> 8 [] c = "9" -> 9

RECURSIVE DecimalValue(_)
\* int(str) of a string of digits
DecimalValue(chars) ==
    IF chars = <<>> THEN 0
    ELSE DecimalValue(SubSeq(chars, 1, Len(chars) - 1)) * 10 + DigitValue(chars[Len(chars)])

\* faulty variant: a missing status is not defaulted (entry['status'])
StatusReadable_NoDefault(f) ==
    \/ f.tag = "int"
    \/ f.tag = "str" /\ f.str # <<>> /\ \A i \in 1..Len(f.str) : f.str[i] \in Digits

\* line 256: int(entry.get('status', 0)) returns (it raises ValueError for a
\* string that is no number and TypeError for null); of the strings, those
\* that occur here are strings of digits or hold no digit
StatusReadable(f) ==
    \/ f.tag \in {"absent", "int"}
    \/ f.tag = "str" /\ f.str # <<>> /\ \A i \in 1..Len(f.str) : f.str[i] \in Digits

\* line 256: the value of int(entry.get('status', 0))
StatusCode(f) ==
    CASE f.tag = "absent" -> 0
      [] f.tag = "int" -> f.int
      [] f.tag = "str" -> DecimalValue(f.str)

\* str.lower() on the characters that occur
LowerChar(c) ==
    CASE c = "B" -> "b" [] c = "L" -> "l" [] c = "U" -> "u" [] c = "E" -> "e"
      [] c = "G" -> "g" [] c = "R" -> "r" [] c = "N" -> "n"
      [] OTHER -> c
Lower(chars) == [i \in 1..Len(chars) |-> LowerChar(chars[i])]

RECURSIVE Strip(_)
\* str.strip(): leading and trailing blanks removed
Strip(chars) ==
    IF chars = <<>> THEN chars
    ELSE IF Head(chars) = " " THEN Strip(Tail(chars))
    ELSE IF chars[Len(chars)] = " " THEN Strip(SubSeq(chars, 1, Len(chars) - 1))
    ELSE chars

\* line 257: entry.get('pool', '').lower().strip() returns (it raises
\* AttributeError for a value that is no string)
PoolReadable(f) == f.tag \in {"absent", "str"}

\* line 257: the value of entry.get('pool', '').lower().strip()
PoolName(f) == IF f.tag = "absent" THEN <<>> ELSE Strip(Lower(f.str))

\* faulty variant: the pool is read only after the error rate was tracked
Extracted_StatusOnly(e) == StatusReadable(e.status)

\* lines 254-258, 278: the fields are extracted without an exception
Extracted(e) == StatusReadable(e.status) /\ PoolReadable(e.pool)

\* lines 207-218: the outcomes of requests.post and raise_for_status; a
\* timeout, a network error and a rejected request are RequestExceptions,
\* which _send_message catches
SendOutcomes == {"ok", "failed"}

\* lines 266-267, 275-276: what can become of an alert: nothing is sent when
\* the gate did not fire or there is no notifier
SendResults(fired) == IF fired /\ slack_enabled THEN SendOutcomes ELSE {"none"}

\* faulty variant: a failed send is repeated once
PostCalls_Retry(result) ==
    IF result = "none" THEN 0 ELSE IF result = "failed" THEN 2 ELSE 1

\* lines 209-218: the requests.post calls made for one alert
PostCalls(result) == IF result = "none" THEN 0 ELSE 1

WatcherInit ==
    /\ slack_enabled \in BOOLEAN
    /\ entry = [pool |-> Absent, status |-> Absent]
    /\ n_events = 0
    /\ dropped = FALSE
    /\ intents = <<>>
    /\ send_attempts = 0

\* the values of the status field of the entries
StatusFields == {Absent, IntField(200), StrField(<<"5", "0", "3">>), StrField(<<"-">>)}
\* the values of the pool field of the entries
PoolFields == {Absent, StrField(Blue), StrField(<<"G", "r", "e", "e", "n", " ">>),
               StrField(Yellow), NullField}
\* the entry of a healthy request that names no pool
HealthyEntry == [pool |-> Absent, status |-> IntField(200)]

\* faulty variant: the failure of a send propagates out of _send_message
SendRaises_Uncaught(result) == result = "failed"

\* lines 209-218: the exception that leaves _send_message: none, the except
\* clause of line 217 catches the failure of the post
SendRaises(result) == FALSE

\* lines 264-267: the error-rate alert raised for event n
ErrorRateIntent(n, at, st, result) ==
    [at |-> at, current |-> PyNone, event |-> n, kind |-> "error_rate",
     previous |-> PyNone, send |-> result, stats |-> st]

\* lines 274-276: the failover alert raised for event n
FailoverIntent(n, at, previous_pool, pool, result) ==
    [at |-> at, current |-> pool, event |-> n, kind |-> "failover",
     previous |-> previous_pool, send |-> result, stats |-> NoStats]

\* a should_alert call made by process_log_entry, for the call log
GateCall(kind, at, ret) == [at |-> at, contended |-> FALSE, kind |-> kind, ret |-> ret]

\* line 35: what datetime.now() returns in the should_alert call of line 273
\* when the call of line 263 was made in the same event: the clock may have
\* advanced in between (a send blocks until its timeout)
LaterClock(both) == IF both /\ now < MaxTime THEN {now, now + 1} ELSE {now}

\* lines 252-279: one call of process_log_entry(entry).  The events are
\* processed one after the other.
ProcessLogEntry(e) ==
    /\ entry' = e
    /\ n_events' = n_events + 1
    /\ LET ok == Extracted(e)
           status_code == IF ok THEN StatusCode(e.status) ELSE 0
           pool == IF ok THEN PoolName(e.pool) ELSE <<>>
           \* line 261: if status_code > 0
           trackA == ok /\ status_code > 0
       IN  /\ requests' = IF trackA THEN DequeAppend(requests, status_code, window_size)
                           ELSE requests
           /\ added' = IF trackA THEN Append(added, status_code) ELSE added
           /\ add_ret' = IF trackA THEN AddRequestRet(requests') ELSE FALSE
           /\ LET \* lines 262-263
                  breached == trackA /\ add_ret'
                  fireA == breached
                           /\ ShouldAlertRet(now, DictGet(last_alerts, "error_rate"))
                  map1 == IF breached THEN ShouldAlertMap(last_alerts, "error_rate", now)
                          ELSE last_alerts
              IN  /\ stats' = IF fireA THEN CurrentStats(requests') ELSE NoStats
                  /\ \E r1 \in SendResults(fireA) :
                       \* line 270: if pool (not reached when line 267 raised)
                       LET trackB == ok /\ Truthy(pool) /\ ~SendRaises(r1) IN
                       /\ pool_arg' = IF trackB THEN pool ELSE PyNone
                       /\ pool_ret' = IF trackB THEN UpdatePoolRet(pool, current_pool)
                                      ELSE PyNone
                       /\ current_pool' = IF trackB
                                          THEN UpdatePoolCurrent(pool, current_pool)
                                          ELSE current_pool
                       /\ last_seen_pools' = IF trackB
                                             THEN UpdatePoolSeen(pool, last_seen_pools)
                                             ELSE last_seen_pools
                       /\ accepted' = IF trackB /\ pool \in ValidPools
                                      THEN Append(accepted, pool) ELSE accepted
                       /\ LET \* lines 271-272
                              changed == trackB /\ Truthy(pool_ret')
                          IN  /\ now' \in LaterClock(breached /\ changed)
                              /\ LET \* line 273
                                     fireB == changed
                                              /\ ShouldAlertRet(now', DictGet(map1, "failover"))
                                 IN  /\ last_alerts' =
                                            IF changed
                                            THEN ShouldAlertMap(map1, "failover", now')
                                            ELSE map1
                                     /\ gate_calls' =
                                            (IF breached
                                             THEN <<GateCall("error_rate", now, fireA)>>
                                             ELSE <<>>)
                                            \o (IF changed
                                                THEN <<GateCall("failover", now', fireB)>>
                                                ELSE <<>>)
                                     /\ \E r2 \in SendResults(fireB) :
                                          /\ intents' =
                                                 intents
                                                 \o (IF fireA
                                                     THEN <<ErrorRateIntent(n_events', now,
                                                                            stats', r1)>>
                                                     ELSE <<>>)
                                                 \o (IF fireB
                                                     THEN <<FailoverIntent(n_events', now',
                                                                           pool_ret', pool, r2)>>
                                                     ELSE <<>>)
                                          /\ send_attempts' =
                                                 send_attempts + PostCalls(r1) + PostCalls(r2)
                                          \* line 278: the except clause was entered
                                          /\ dropped' = (~ok \/ SendRaises(r1) \/ SendRaises(r2))
    /\ UNCHANGED <<gate_lock, pc, t_kind, t_now, t_last, t_contended,
                   window_size, slack_enabled, concVars>>

\* the log entries arrive: first LogWarmLen healthy requests that name no
\* pool, then MaxEvents entries of any kind
LogEvent(e) ==
    /\ n_events < LogWarmLen + MaxEvents
    /\ n_events < LogWarmLen => e = HealthyEntry
    /\ ProcessLogEntry(e)

Next ==
    \/ Tick
    \/ \E s \in StatusFields, p \in PoolFields : LogEvent([pool |-> p, status |-> s])

\* the status and pool fields of requests that carry a status code
LevelStatusFields == {IntField(200), StrField(<<"5", "0", "3">>)}
LevelPoolFields == {Absent, StrField(Blue)}

\* lines 291-296: the next entry, one with a status code, is read and processed
LevelEvent ==
    \E s \in LevelStatusFields, p \in LevelPoolFields : LogEvent([pool |-> p, status |-> s])

LevelNext ==
    \/ Tick
    \/ LevelEvent

\* lines 291-296: the next entry, a healthy request whose pool field is p,
\* is read and processed
PoolEvent(p) ==
    /\ n_events < MaxPoolEvents
    /\ ProcessLogEntry([pool |-> p, status |-> IntField(200)])

FailoverNext ==
    \/ Tick
    \/ \E p \in PoolFields : PoolEvent(p)

\* ----------------- LogWatcher.process_log_entry called by several threads
\* Each call of a tracker method is one step: the method runs inside the
\* lock of its tracker.  Between two such calls of one thread the other
\* threads run.

\* the entries of the threads
IngestEntries ==
    {HealthyEntry,
     [pool |-> StrField(Blue), status |-> IntField(200)],
     [pool |-> StrField(<<"G", "r", "e", "e", "n", " ">>), status |-> StrField(<<"5", "0", "3">>)],
     [pool |-> Absent, status |-> StrField(<<"-">>)]}

\* line 270: where a thread continues after the error-rate branch
AfterBranchA(pool) == IF Truthy(pool) THEN "pool" ELSE "idle"

\* the locals of thread t after its call returned
Returned(t) ==
    /\ p_status' = [p_status EXCEPT ![t] = 0]
    /\ p_pool' = [p_pool EXCEPT ![t] = <<>>]
    /\ p_prev' = [p_prev EXCEPT ![t] = PyNone]
    /\ p_event' = [p_event EXCEPT ![t] = 0]
    /\ p_at' = [p_at EXCEPT ![t] = 0]

\* lines 252-261: thread t is called with entry e and extracts its fields
PL_Start(t, e) ==
    /\ p_pc[t] = "idle"
    /\ n_events < MaxIngest
    /\ (n_events >= IngestHead /\ n_events < IngestWarm) => e = HealthyEntry
    /\ entry' = e
    /\ n_events' = n_events + 1
    /\ dropped' = ~Extracted(e)
    /\ IF Extracted(e)
       THEN /\ p_status' = [p_status EXCEPT ![t] = StatusCode(e.status)]
            /\ p_pool' = [p_pool EXCEPT ![t] = PoolName(e.pool)]
            /\ p_event' = [p_event EXCEPT ![t] = n_events']
            /\ p_pc' = [p_pc EXCEPT ![t] = IF StatusCode(e.status) > 0 THEN "add"
                                           ELSE AfterBranchA(PoolName(e.pool))]
       ELSE UNCHANGED <<p_status, p_pool, p_event, p_pc>>
    /\ UNCHANGED <<p_prev, p_at, intents, send_attempts, slack_enabled>>
    /\ UNCHANGED <<now, gateVars, poolVars, monVars, statVars>>

\* line 262: self.error_monitor.add_request(status_code)
PL_Add(t) ==
    /\ p_pc[t] = "add"
    /\ requests' = DequeAppend(requests, p_status[t], window_size)
    /\ added' = Append(added, p_status[t])
    /\ add_ret' = AddRequestRet(requests')
    /\ IF add_ret'
       THEN /\ p_pc' = [p_pc EXCEPT ![t] = "gateA"]
            /\ UNCHANGED <<p_status, p_pool, p_prev, p_event, p_at>>
       ELSE /\ p_pc' = [p_pc EXCEPT ![t] = AfterBranchA(p_pool[t])]
            /\ IF Truthy(p_pool[t])
               THEN UNCHANGED <<p_status, p_pool, p_prev, p_event, p_at>>
               ELSE Returned(t)
    /\ UNCHANGED <<window_size, stats>>
    /\ UNCHANGED <<now, gateVars, poolVars, watcherVars, statVars>>

\* line 263: self.alert_manager.should_alert('error_rate')
PL_GateA(t) ==
    /\ p_pc[t] = "gateA"
    /\ last_alerts' = ShouldAlertMap(last_alerts, "error_rate", now)
    /\ LET ret == ShouldAlertRet(now, DictGet(last_alerts, "error_rate")) IN
       /\ gate_calls' = Append(gate_calls, GateCall("error_rate", now, ret))
       /\ IF ret
          THEN /\ p_pc' = [p_pc EXCEPT ![t] = "stats"]
               /\ p_at' = [p_at EXCEPT ![t] = now]
               /\ UNCHANGED <<p_status, p_pool, p_prev, p_event>>
          ELSE /\ p_pc' = [p_pc EXCEPT ![t] = AfterBranchA(p_pool[t])]
               /\ IF Truthy(p_pool[t])
                  THEN UNCHANGED <<p_status, p_pool, p_prev, p_event, p_at>>
                  ELSE Returned(t)
    /\ UNCHANGED <<gate_lock, pc, t_kind, t_now, t_last, t_contended>>
    /\ UNCHANGED <<now, poolVars, monVars, watcherVars, statVars>>

\* lines 264-267: stats = self.error_monitor.get_current_stats(); the alert
\* is logged and handed to the notifier
PL_Stats(t) ==
    /\ p_pc[t] = "stats"
    /\ stats' = CurrentStats(requests)
    /\ \E r \in SendResults(TRUE) :
           /\ intents' = Append(intents, ErrorRateIntent(p_event[t], p_at[t], stats', r))
           /\ send_attempts' = send_attempts + PostCalls(r)
           /\ dropped' = SendRaises(r)
           /\ p_pc' = [p_pc EXCEPT ![t] = IF SendRaises(r) THEN "idle"
                                          ELSE AfterBranchA(p_pool[t])]
           /\ IF Truthy(p_pool[t]) /\ ~SendRaises(r)
              THEN UNCHANGED <<p_status, p_pool, p_prev, p_event, p_at>>
              ELSE Returned(t)
    /\ UNCHANGED <<window_size, requests, added, add_ret, slack_enabled, entry, n_events>>
    /\ UNCHANGED <<now, gateVars, poolVars, statVars>>

\* lines 271-272: previous_pool = self.pool_tracker.update_pool(pool)
PL_Pool(t) ==
    /\ p_pc[t] = "pool"
    /\ pool_arg' = p_pool[t]
    /\ pool_ret' = UpdatePoolRet(p_pool[t], current_pool)
    /\ current_pool' = UpdatePoolCurrent(p_pool[t], current_pool)
    /\ last_seen_pools' = UpdatePoolSeen(p_pool[t], last_seen_pools)
    /\ accepted' = IF p_pool[t] \in ValidPools THEN Append(accepted, p_pool[t])
                   ELSE accepted
    /\ IF Truthy(pool_ret')
       THEN /\ p_pc' = [p_pc EXCEPT ![t] = "gateB"]
            /\ p_prev' = [p_prev EXCEPT ![t] = pool_ret']
            /\ UNCHANGED <<p_status, p_pool, p_event, p_at>>
       ELSE /\ p_pc' = [p_pc EXCEPT ![t] = "idle"]
            /\ Returned(t)
    /\ UNCHANGED <<now, gateVars, monVars, watcherVars, statVars>>

\* lines 273-276: self.alert_manager.should_alert('failover'); the alert is
\* logged and handed to the notifier
PL_GateB(t) ==
    /\ p_pc[t] = "gateB"
    /\ last_alerts' = ShouldAlertMap(last_alerts, "failover", now)
    /\ LET ret == ShouldAlertRet(now, DictGet(last_alerts, "failover")) IN
       /\ gate_calls' = Append(gate_calls, GateCall("failover", now, ret))
       /\ \E r \in SendResults(ret) :
              /\ intents' = IF ret
                            THEN Append(intents, FailoverIntent(p_event[t], now, p_prev[t],
                                                                p_pool[t], r))
                            ELSE intents
              /\ send_attempts' = send_attempts + PostCalls(r)
              /\ dropped' = SendRaises(r)
    /\ p_pc' = [p_pc EXCEPT ![t] = "idle"]
    /\ Returned(t)
    /\ UNCHANGED <<gate_lock, pc, t_kind, t_now, t_last, t_contended>>
    /\ UNCHANGED <<slack_enabled, entry, n_events>>
    /\ UNCHANGED <<now, poolVars, monVars, statVars>>

\* the entries are processed within one reading of the clock
IngestNext ==
    \/ \E t \in IngestThreads, e \in IngestEntries : PL_Start(t, e)
    \/ \E t \in IngestThreads : PL_Add(t)
    \/ \E t \in IngestThreads : PL_GateA(t)
    \/ \E t \in IngestThreads : PL_Stats(t)
    \/ \E t \in IngestThreads : PL_Pool(t)
    \/ \E t \in IngestThreads : PL_GateB(t)

\* line 227: the smallest window_size with which the monitor can report a breach
IngestWindowSize == MinSamples

\* lines 223-241: a LogWatcher and its components after construction
Init ==
    /\ now = 0
    /\ window_size = LogWindowSize
    /\ GateInit /\ PoolInit /\ MonInit /\ WatcherInit /\ StatInit /\ IngestInit

\* the components alone, constructed and called directly
ComponentInit ==
    /\ now = 0
    /\ window_size = WindowSize
    /\ GateInit /\ PoolInit /\ MonInit /\ WatcherInit /\ StatInit /\ IngestInit
    /\ ~slack_enabled

\* a monitor alone, its statistics read by one thread while another adds requests
StatsInit ==
    /\ now = 0
    /\ window_size = StatsWindowSize
    /\ GateInit /\ PoolInit /\ MonInit /\ WatcherInit /\ StatInit /\ IngestInit
    /\ ~slack_enabled

Spec == Init /\ [][Next]_vars

SpecPool == ComponentInit /\ [][PoolNext]_vars

SpecMon == ComponentInit /\ [][MonNext]_vars

SpecGate == ComponentInit /\ [][GateNext]_vars

SpecStats == StatsInit /\ [][StatNext]_vars

SpecFailover == Init /\ [][FailoverNext]_vars

\* line 227: the largest window_size below the floor of 50 requests
SmallWindowSize == MinSamples - 1

\* a LogWatcher configured with that window_size
SmallWindowInit ==
    /\ now = 0
    /\ window_size = SmallWindowSize
    /\ GateInit /\ PoolInit /\ MonInit /\ WatcherInit /\ StatInit /\ IngestInit

SpecSmallWindow == SmallWindowInit /\ [][Next]_vars

\* lines 285-298: the loop of tail_log_file processes every line it reads;
\* time advances, and requests with a status code keep arriving while the
\* stream lasts
SpecLevel == Init /\ [][LevelNext]_vars /\ WF_vars(Tick) /\ WF_vars(LevelEvent)

\* a LogWatcher whose process_log_entry is called by several threads, with a
\* notifier
IngestSetup ==
    /\ now = 0
    /\ window_size = IngestWindowSize
    /\ GateInit /\ PoolInit /\ MonInit /\ WatcherInit /\ StatInit /\ IngestInit
    /\ slack_enabled

SpecIngest == IngestSetup /\ [][IngestNext]_vars

\* ------------------------------------------------- claims: AlertManager
MaxOf(S) == CHOOSE x \in S : \A y \in S : y <= x

\* the earlier calls of the log, of the kind of call i, that returned True
FiredBefore(i) ==
    {j \in 1..(i - 1) : gate_calls[j].kind = gate_calls[i].kind /\ gate_calls[j].ret}

\* C1: under the non-decreasing clock, every should_alert call returns True
\* exactly when no earlier call of its kind returned True or its time
\* exceeds the time of the last such call by strictly more than the cooldown.
C1_ShouldAlertExactlyWhenEligible ==
    \A i \in 1..Len(gate_calls) :
        LET F == FiredBefore(i) IN
        gate_calls[i].ret =
            (F = {} \/ gate_calls[i].at - gate_calls[MaxOf(F)].at > CooldownSeconds)

\* C1 witness: one kind called four times: True, at once again False, at
\* exactly the cooldown False, after more than the cooldown True.
C1_Witness ==
    /\ Len(gate_calls) = 4
    /\ \A i \in 1..4 : gate_calls[i].kind = "error_rate"
    /\ gate_calls[1].ret /\ ~gate_calls[2].ret /\ ~gate_calls[3].ret /\ gate_calls[4].ret
    /\ gate_calls[2].at = gate_calls[1].at
    /\ gate_calls[3].at = gate_calls[1].at + CooldownSeconds
    /\ gate_calls[4].at > gate_calls[1].at + CooldownSeconds

\* C2: whatever the interleaving of the threads, two calls of one kind that
\* both returned True are more than the cooldown apart.
C2_FiringsMoreThanCooldownApart ==
    \A i, j \in 1..Len(gate_calls) :
        (i < j /\ gate_calls[i].kind = gate_calls[j].kind
               /\ gate_calls[i].ret /\ gate_calls[j].ret)
            => (gate_calls[j].at - gate_calls[i].at > CooldownSeconds
                \/ gate_calls[i].at - gate_calls[j].at > CooldownSeconds)

\* C2 witness: two calls for a never-fired kind at the same instant, the
\* second made while the first held the lock; exactly one returned True.
C2_Witness ==
    /\ Len(gate_calls) >= 2
    /\ gate_calls[1].kind = gate_calls[2].kind
    /\ gate_calls[1].at = gate_calls[2].at
    /\ gate_calls[2].contended
    /\ gate_calls[1].ret /\ ~gate_calls[2].ret

\* -------------------------------------------------- claims: PoolTracker
\* C3: a call of update_pool with a valid pool returns a value exactly when
\* the pool differs from the valid pool accepted just before it; the value
\* is that earlier pool, and the first accepted pool returns nothing.
C3_ReturnsPreviousIffChanged ==
    pool_arg \in ValidPools =>
        LET n == Len(accepted) IN
        /\ (pool_ret # PyNone) <=> (n >= 2 /\ accepted[n] # accepted[n - 1])
        /\ pool_ret # PyNone => pool_ret = accepted[n - 1]
        /\ n = 1 => pool_ret = PyNone

\* C3 witness: blue, blue, green were accepted and the third call returned blue.
C3_Witness ==
    /\ accepted = <<Blue, Blue, Green>>
    /\ pool_arg = Green
    /\ pool_ret = Blue

\* --------------------------------------------- claims: ErrorRateMonitor
Min(a, b) == IF a < b THEN a ELSE b

\* the last n items of s
LastN(s, n) == SubSeq(s, Len(s) - n + 1, Len(s))

\* the codes of s that are server errors
ServerErrors(s) == Cardinality({i \in 1..Len(s) : s[i] > 499})

\* C4: add_request returns True exactly when the window, after the append,
\* holds at least 50 entries of which strictly more than 2 percent are
\* >= 500: False below 50 entries, True for 100 entries with 3 errors, False
\* for 100 entries with 2 errors.
C4_BreachIffFloorAndRateAbove ==
    Len(added) > 0 =>
        /\ add_ret = (Len(requests) >= 50
                      /\ ServerErrors(requests) * 100 > 2 * Len(requests))
        /\ Len(requests) < 50 => ~add_ret
        /\ (Len(requests) = 100 /\ ServerErrors(requests) = 3) => add_ret
        /\ (Len(requests) = 100 /\ ServerErrors(requests) = 2) => ~add_ret

\* C4 witness: a window of 100 entries with 3 errors reported a breach.
C4_Witness ==
    /\ Len(requests) = 100
    /\ ServerErrors(requests) = 3
    /\ add_ret

\* the window the claim describes: the most recent min(n, W) codes added
RecentCodes == LastN(added, Min(Len(added), window_size))

\* C5: the window never holds more than window_size entries, it is the most
\* recent min(n, window_size) codes added, in order, and the results of
\* add_request and get_current_stats are computed from those codes alone.
C5_WindowIsMostRecentCodes ==
    /\ Len(requests) <= window_size
    /\ requests = RecentCodes
    /\ Len(added) > 0 =>
           add_ret = (Len(RecentCodes) >= 50
                      /\ ServerErrors(RecentCodes) * 100 > 2 * Len(RecentCodes))
    /\ stats # NoStats =>
           /\ stats.total = Len(RecentCodes)
           /\ stats.errors = ServerErrors(RecentCodes)

\* C5 witness: window_size + 1 codes were added, the oldest an error; the
\* window holds window_size entries and the evicted error is not counted:
\* with it the rate would be a breach, without it it is none.
C5_Witness ==
    /\ Len(added) = window_size + 1
    /\ Len(requests) = window_size
    /\ added[1] >= 500
    /\ ServerErrors(added) * 100 > 2 * window_size
    /\ ~add_ret
    /\ stats # NoStats
    /\ stats.errors = ServerErrors(added) - 1

\* --------------------------------------------------- claims: LogWatcher
\* the alerts of a kind among the first n alerts raised
IntentsOf(log, kind, n) == {i \in 1..n : log[i].kind = kind}

\* the alerts of a kind raised by the step
NewIntents(kind) ==
    {i \in (Len(intents) + 1)..Len(intents') : intents'[i].kind = kind}

\* the step is one call of process_log_entry
Processed == n_events' = n_events + 1

\* C6: events being processed one after the other, an event that breaches
\* the threshold (the window then holds at least 50 entries, more than 2
\* percent of them errors) raises exactly one error-rate alert when none was
\* raised before or the last one is more than the cooldown old, and none
\* otherwise; an event that does not breach raises none.  So no two
\* error-rate alerts are within one cooldown.
C6_OneErrorRateAlertPerCooldown ==
    [][Processed =>
        LET old == IntentsOf(intents, "error_rate", Len(intents))
            breach == /\ Len(added') = Len(added) + 1
                      /\ Len(requests') >= 50
                      /\ ServerErrors(requests') * 100 > 2 * Len(requests')
            eligible == old = {} \/ now - intents[MaxOf(old)].at > CooldownSeconds
        IN  Cardinality(NewIntents("error_rate")) = IF breach /\ eligible THEN 1 ELSE 0
      ]_vars

\* C6 witness: one error-rate alert was raised by an earlier event, and the
\* last event breached within the cooldown and raised none.
C6_Witness ==
    /\ Cardinality(IntentsOf(intents, "error_rate", Len(intents))) = 1
    /\ \E i \in 1..Len(intents) :
           /\ intents[i].kind = "error_rate"
           /\ intents[i].event < n_events
           /\ now - intents[i].at <= CooldownSeconds
    /\ add_ret
    /\ \E c \in 1..Len(gate_calls) :
           gate_calls[c].kind = "error_rate" /\ ~gate_calls[c].ret

\* C7: an event raises at most one failover alert, and only when its pool is
\* blue or green and differs from the current pool of the tracker, which is
\* set; the alert carries the pool before the event as previous and the
\* pool of the event as current.  With no failover alert raised before, such
\* an event raises one.
C7_FailoverOnlyOnPoolChange ==
    [][Processed =>
        LET new == NewIntents("failover")
            pool == PoolName(entry'.pool)
            valid == Extracted(entry') /\ pool \in ValidPools
        IN  /\ Cardinality(new) <= 1
            /\ \A i \in new :
                   /\ valid
                   /\ current_pool \in ValidPools
                   /\ pool # current_pool
                   /\ intents'[i].previous = current_pool
                   /\ intents'[i].current = pool
                   /\ current_pool' = pool
            /\ (valid /\ current_pool \in ValidPools /\ pool # current_pool
                      /\ "failover" \notin DOMAIN last_alerts)
                   => Cardinality(new) = 1
      ]_vars

\* C7 witness: from the empty tracker the pools blue, green, green arrived;
\* the only alert is the failover from blue to green of the second event.
C7_Witness ==
    /\ n_events = LogWarmLen + 3
    /\ accepted = <<Blue, Green, Green>>
    /\ Len(intents) = 1
    /\ intents[1].kind = "failover"
    /\ intents[1].previous = Blue
    /\ intents[1].current = Green
    /\ intents[1].event = LogWarmLen + 2

\* an event with no status and a pool outside blue and green, or one whose
\* status is no number or whose pool is no string
MalformedEntry(e) ==
    \/ e.status.tag = "absent" /\ e.pool.tag = "str"
          /\ Strip(Lower(e.pool.str)) \notin {Blue, Green}
    \/ e.status.tag = "str" /\ \E i \in 1..Len(e.status.str) : e.status.str[i] \notin Digits
    \/ e.status.tag = "null"
    \/ e.pool.tag \in {"int", "null"}

\* C8: processing a malformed event raises no alert and leaves the error
\* window, the pool tracker and the cooldown map unchanged.
C8_MalformedEventIsNoOp ==
    [][(Processed /\ MalformedEntry(entry')) =>
        UNCHANGED <<requests, current_pool, last_seen_pools, last_alerts, intents,
                    send_attempts>>
      ]_vars

\* C8 witness: alerts were raised, then an event with a valid status and a
\* pool that is no string was dropped.
C8_Witness ==
    /\ dropped
    /\ entry.status = IntField(200)
    /\ entry.pool = NullField
    /\ intents # <<>>

\* C9 as claimed: an event whose status is no number but whose pool is valid
\* updates the pool tracker, and an event whose pool is no string but whose
\* status is a valid code adds the code to the window.
C9_Original ==
    [][Processed =>
        /\ (~StatusReadable(entry'.status) /\ entry'.pool.tag = "str"
              /\ PoolName(entry'.pool) \in ValidPools)
               => current_pool' = PoolName(entry'.pool)
        /\ (~PoolReadable(entry'.pool) /\ StatusReadable(entry'.status)
              /\ StatusCode(entry'.status) > 0)
               => added' = Append(added, StatusCode(entry'.status))
      ]_vars

\* C9 amended: a missing field is defaulted and the event is processed with
\* the other: without a status a valid pool updates the pool tracker, and
\* without a pool a valid status code is added to the window.  An event
\* whose status is no number or whose pool is no string is dropped whole.
C9_MissingFieldsDefaulted ==
    [][Processed =>
        /\ (entry'.status.tag = "absent" /\ entry'.pool.tag = "str"
              /\ Strip(Lower(entry'.pool.str)) \in {Blue, Green})
               => /\ current_pool' = Strip(Lower(entry'.pool.str))
                  /\ accepted' = Append(accepted, current_pool')
                  /\ requests' = requests
        /\ (entry'.pool.tag = "absent" /\ entry'.status.tag = "int"
              /\ entry'.status.int > 0)
               => /\ added' = Append(added, entry'.status.int)
                  /\ requests'[Len(requests')] = entry'.status.int
                  /\ current_pool' = current_pool
        /\ (entry'.status = StrField(<<"-">>) \/ entry'.pool.tag = "null")
               => dropped' /\ UNCHANGED <<requests, added, current_pool, accepted>>
      ]_vars

\* C9 witness: an event without a status moved the pool to green and raised
\* the failover alert.
C9_Witness ==
    /\ entry.status = Absent
    /\ entry.pool.tag = "str"
    /\ current_pool = Green
    /\ \E i \in 1..Len(intents) :
           /\ intents[i].kind = "failover"
           /\ intents[i].event = n_events
           /\ intents[i].current = Green

\* C10: a failed send is not repeated and changes no state: one post is made
\* per alert handed to the notifier; after a failed send the cooldown map
\* holds the time the alert was raised until the next alert of the kind,
\* which is more than the cooldown later; the window is the most recent
\* codes and the pool tracker the most recent pools, whatever the sends did.
C10_SendFailureChangesNothing ==
    /\ send_attempts = Cardinality({i \in 1..Len(intents) : intents[i].send # "none"})
    /\ \A i \in 1..Len(intents) :
           intents[i].send = "failed" =>
               LET same == IntentsOf(intents, intents[i].kind, Len(intents)) IN
               /\ intents[i].kind \in DOMAIN last_alerts
               /\ i = MaxOf(same) => last_alerts[intents[i].kind] = intents[i].at
               /\ \A j \in same : j > i => intents[j].at - intents[i].at > CooldownSeconds
    /\ requests = RecentCodes
    /\ accepted # <<>> =>
           /\ current_pool = accepted[Len(accepted)]
           /\ last_seen_pools = LastN(accepted, Min(Len(accepted), 10))

\* C10 witness: the send of a failover alert failed, and the next pool
\* change, within the cooldown, was recorded by the tracker and suppressed.
C10_Witness ==
    /\ Len(intents) = 1
    /\ intents[1].kind = "failover"
    /\ intents[1].send = "failed"
    /\ intents[1].event < n_events
    /\ send_attempts = 1
    /\ current_pool = intents[1].previous
    /\ last_alerts["failover"] = intents[1].at
    /\ \E c \in 1..Len(gate_calls) :
           gate_calls[c].kind = "failover" /\ ~gate_calls[c].ret

\* C11: an event with a status code above 0 and a valid pool updates the
\* pool tracker with that pool and raises a failover alert exactly when the
\* pool differs from the tracker's current pool and the failover kind is
\* eligible at the time of its gate call, whatever the error-rate branch did
\* on the event; when the event also breaches the threshold and the
\* error-rate kind is eligible, it raises both alerts.
C11_BranchesIndependent ==
    [][(Processed /\ Extracted(entry') /\ StatusCode(entry'.status) > 0
                  /\ PoolName(entry'.pool) \in ValidPools) =>
        LET pool == PoolName(entry'.pool)
            change == current_pool \in ValidPools /\ pool # current_pool
            failoverEligible ==
                \/ "failover" \notin DOMAIN last_alerts
                \/ now' - last_alerts["failover"] > CooldownSeconds
            breach == /\ Len(requests') >= 50
                      /\ ServerErrors(requests') * 100 > 2 * Len(requests')
            errorRateEligible ==
                \/ "error_rate" \notin DOMAIN last_alerts
                \/ now - last_alerts["error_rate"] > CooldownSeconds
        IN  /\ current_pool' = pool
            /\ accepted' = Append(accepted, pool)
            /\ last_seen_pools' = LastN(accepted', Min(Len(accepted'), 10))
            /\ added' = Append(added, StatusCode(entry'.status))
            /\ Cardinality(NewIntents("failover")) =
                   IF change /\ failoverEligible THEN 1 ELSE 0
            /\ (breach /\ errorRateEligible /\ change /\ failoverEligible)
                   => /\ Cardinality(NewIntents("error_rate")) = 1
                      /\ Cardinality(NewIntents("failover")) = 1
      ]_vars

\* C11 witness: one event raised both alerts; the send of its error-rate
\* alert failed, the clock advanced meanwhile, and its failover alert was
\* sent.
C11_Witness ==
    \E i, j \in 1..Len(intents) :
        /\ intents[i].kind = "error_rate"
        /\ intents[j].kind = "failover"
        /\ intents[i].event = intents[j].event
        /\ intents[i].send = "failed"
        /\ intents[j].send = "ok"
        /\ intents[j].at > intents[i].at
        /\ current_pool = intents[j].current

\* ------------------------------------------ claims: PoolTracker, continued
\* C12: a call of update_pool with None, with the empty string or with a
\* string other than blue and green returns nothing and leaves current_pool
\* and last_seen_pools as they were.
C12_InvalidPoolIsNoOp ==
    [][pool_arg' \notin {Blue, Green} =>
          /\ pool_ret' = PyNone
          /\ current_pool' = current_pool
          /\ last_seen_pools' = last_seen_pools
      ]_vars

\* C12 witness: after blue and green were accepted, the call with "Blue"
\* returned nothing and the tracker still holds green.
C12_Witness ==
    /\ pool_arg = <<"B", "l", "u", "e">>
    /\ pool_ret = PyNone
    /\ accepted = <<Blue, Green>>
    /\ current_pool = Green
    /\ last_seen_pools = <<Blue, Green>>

\* C13: current_pool is unset while no valid pool was accepted and is the
\* most recently accepted pool afterwards; last_seen_pools holds the most
\* recent accepted pools, at most 10, oldest first, and its newest entry is
\* current_pool.
C13_PoolTrackerInvariant ==
    /\ accepted = <<>> => (current_pool = PyNone /\ last_seen_pools = <<>>)
    /\ accepted # <<>> => current_pool = accepted[Len(accepted)]
    /\ Len(last_seen_pools) <= 10
    /\ last_seen_pools = LastN(accepted, Min(Len(accepted), 10))
    /\ last_seen_pools # <<>> => last_seen_pools[Len(last_seen_pools)] = current_pool

\* C13 witness: twelve pools were accepted, two blue and then ten green;
\* the two oldest were evicted and the deque holds the ten green ones.
C13_Witness ==
    /\ Len(accepted) = 12
    /\ accepted[1] = Blue /\ accepted[2] = Blue
    /\ Len(last_seen_pools) = 10
    /\ \A i \in 1..10 : last_seen_pools[i] = Green
    /\ current_pool = Green

\* ---------------------------------------- claims: AlertManager, continued
\* the step completes a should_alert call
CallCompleted == Len(gate_calls') = Len(gate_calls) + 1

\* the calls of the log, of a kind, that returned True
FiredOf(log, kind) == {j \in 1..Len(log) : log[j].kind = kind /\ log[j].ret}

\* C15: a should_alert call, whatever it returns, leaves the timestamp of
\* the other kind as it was (absent or the same time), and a call of a kind
\* that never fired returns True even when the other kind has just fired.
C15_CooldownPerKind ==
    [][CallCompleted =>
        LET n == Len(gate_calls')
            call == gate_calls'[n]
        IN  /\ \A k \in {"error_rate", "failover"} \ {call.kind} :
                   /\ (k \in DOMAIN last_alerts') = (k \in DOMAIN last_alerts)
                   /\ k \in DOMAIN last_alerts => last_alerts'[k] = last_alerts[k]
            /\ FiredOf(gate_calls, call.kind) = {} => call.ret
      ]_vars

\* C15 witness: the failover kind fired, and at the same instant the first
\* error_rate call fired too; the failover timestamp is still its own.
C15_Witness ==
    /\ Len(gate_calls) >= 3
    /\ gate_calls[1].kind = "failover" /\ gate_calls[1].ret
    /\ gate_calls[2].kind = "failover" /\ ~gate_calls[2].ret
    /\ gate_calls[3].kind = "error_rate" /\ gate_calls[3].ret
    /\ gate_calls[3].at = gate_calls[1].at + CooldownSeconds
    /\ last_alerts["failover"] = gate_calls[1].at
    /\ last_alerts["error_rate"] = gate_calls[3].at

\* C17: a should_alert call that returns False leaves the cooldown map as
\* it was, so the timestamp of a kind is always the time of its last call
\* that returned True, and a call made more than the cooldown after that
\* time returns True whatever suppressed calls came in between.
C17_SuppressedCallLeavesTimestamp ==
    [][CallCompleted =>
        LET n == Len(gate_calls')
            call == gate_calls'[n]
            fired == FiredOf(gate_calls, call.kind)
        IN  /\ ~call.ret => last_alerts' = last_alerts
            /\ fired # {} =>
                   /\ last_alerts[call.kind] = gate_calls[MaxOf(fired)].at
                   /\ call.at - gate_calls[MaxOf(fired)].at > CooldownSeconds => call.ret
      ]_vars

\* C17 witness: a kind fired, a call exactly the cooldown later was
\* suppressed, and the call one tick after that fired: the cooldown ran from
\* the firing, not from the suppressed call.
C17_Witness ==
    /\ Len(gate_calls) = 3
    /\ \A i \in 1..3 : gate_calls[i].kind = "failover"
    /\ gate_calls[1].ret /\ ~gate_calls[2].ret /\ gate_calls[3].ret
    /\ gate_calls[2].at = gate_calls[1].at + CooldownSeconds
    /\ gate_calls[3].at = gate_calls[2].at + 1
    /\ gate_calls[3].at - gate_calls[2].at <= CooldownSeconds

\* ------------------------------------ claims: ErrorRateMonitor, continued
\* the window after the first k appends
WindowAfter(k) == LastN(SubSeq(added, 1, k), Min(k, window_size))

\* C14: get_current_stats, called while another thread adds requests,
\* returns the statistics of the window as it was after some whole number
\* of appends, between those done when it was called and those done when it
\* returned: total is the length of that window, at most window_size,
\* errors the number of its codes >= 500, and all are 0 for the empty
\* window; none of its steps changes the window.
C14_StatsAreConsistentSnapshot ==
    /\ [](stats # NoStats =>
            /\ stats.errors <= stats.total
            /\ stats.total <= window_size
            /\ \E k \in snap_lo..snap_hi :
                   /\ stats.total = Len(WindowAfter(k))
                   /\ stats.errors = ServerErrors(WindowAfter(k))
                   /\ k = 0 => stats.error_rate = 0)
    /\ [][r_pc' # r_pc => (requests' = requests /\ added' = added)]_vars

\* C14 witness: the window was full and an append with an eviction was made
\* between the call of get_current_stats and its return; the statistics are
\* those of the full window after it, which holds an error.
C14_Witness ==
    /\ stats # NoStats
    /\ r_pc = "idle"
    /\ snap_lo >= window_size
    /\ snap_hi > snap_lo
    /\ stats.total = window_size
    /\ stats.errors = ServerErrors(requests)
    /\ stats.errors > 0
    /\ added[snap_hi - window_size] # added[snap_hi]

\* ------------------------------------------ claims: LogWatcher, continued
\* C16 as claimed: every error-rate alert carries statistics of a window
\* that holds at least 50 entries, more than 2 percent of them errors, also
\* when several threads process entries at the same time.
C16_StatsShowBreach ==
    \A i \in 1..Len(intents) :
        intents[i].kind = "error_rate" =>
            /\ intents[i].stats.total >= 50
            /\ intents[i].stats.errors * 100 > 2 * intents[i].stats.total

\* the window holds at least 50 entries, more than 2 percent of them errors
Breached(q) == Len(q) >= 50 /\ ServerErrors(q) * 100 > 2 * Len(q)

\* the error-rate alerts raised so far
ErrorRateAlerts == IntentsOf(intents, "error_rate", Len(intents))

\* an error-rate alert was raised and more than the cooldown has passed
\* since the last one
ErrorRateCooldownOver ==
    /\ ErrorRateAlerts # {}
    /\ now - intents[MaxOf(ErrorRateAlerts)].at > CooldownSeconds

\* C18: every event with a status code that leaves the window in breach
\* makes add_request return True, also when the window was in breach
\* before it; and whenever the window is in breach, more than the cooldown
\* has passed since the last error-rate alert and the stream has not ended,
\* a further error-rate alert is eventually raised (the time since the last
\* one is then within the cooldown again) unless the window leaves the
\* breach.
C18_BreachIsLevelTriggered ==
    /\ [][(Processed /\ Len(added') = Len(added) + 1 /\ Breached(requests'))
             => add_ret']_vars
    /\ (/\ Breached(requests)
        /\ ErrorRateCooldownOver
        /\ n_events < LogWarmLen + MaxEvents)
         ~> ((ErrorRateAlerts # {} /\ ~ErrorRateCooldownOver) \/ ~Breached(requests))

\* C18 witness: the window was in breach after two successive events; the
\* first raised an error-rate alert and the second, more than the cooldown
\* later, raised the next.
C18_Witness ==
    /\ Cardinality(ErrorRateAlerts) = 2
    /\ \E i, j \in ErrorRateAlerts :
           /\ intents[j].event = intents[i].event + 1
           /\ intents[j].at - intents[i].at > CooldownSeconds
           /\ intents[i].stats.errors * 100 > 2 * intents[i].stats.total
           /\ intents[j].stats.errors * 100 > 2 * intents[j].stats.total
    /\ Breached(requests)
    /\ add_ret

\* the failover alerts among the first n alerts of a log
FailoverAlerts(log) == IntentsOf(log, "failover", Len(log))

\* the changes in a sequence of accepted pools
PoolChanges(seq) == Cardinality({i \in 2..Len(seq) : seq[i] # seq[i - 1]})

\* C19: an event whose valid pool differs from the tracker's current pool
\* while the failover kind is within its cooldown sets current_pool to the
\* new pool and raises no alert; an event that carries the pool the tracker
\* already holds raises no failover alert, whether or not the cooldown has
\* expired; so there are never more failover alerts than pool changes.
C19_SuppressedChangeIsNeverAlerted ==
    [][Processed =>
        LET pool == PoolName(entry'.pool)
            valid == Extracted(entry') /\ pool \in {Blue, Green}
            change == valid /\ current_pool \in {Blue, Green} /\ pool # current_pool
            within == /\ "failover" \in DOMAIN last_alerts
                      /\ now' - last_alerts["failover"] <= CooldownSeconds
        IN  /\ (change /\ within) =>
                   /\ current_pool' = pool
                   /\ NewIntents("failover") = {}
                   /\ last_alerts' = last_alerts
            /\ (valid /\ pool = current_pool) =>
                   /\ NewIntents("failover") = {}
                   /\ current_pool' = current_pool
            /\ Cardinality(FailoverAlerts(intents')) <= PoolChanges(accepted')
      ]_vars

\* C19 witness: blue, green, blue, blue arrived; the change to green was
\* alerted, the change back to blue fell within the cooldown and was not,
\* and with the cooldown over the last event, blue again, raised nothing:
\* two changes, one alert.
C19_Witness ==
    /\ accepted = <<Blue, Green, Blue, Blue>>
    /\ n_events = 4
    /\ current_pool = Blue
    /\ Len(intents) = 1
    /\ intents[1].kind = "failover"
    /\ intents[1].event = 2
    /\ now - last_alerts["failover"] > CooldownSeconds
    /\ gate_calls = <<>>
    /\ PoolChanges(accepted) = 2

\* C20: with a window_size below 50 the window never holds 50 entries,
\* add_request returns False on every call and no error-rate alert is
\* raised nor the error-rate kind recorded by the gate, whatever the
\* status codes.
C20_SmallWindowNeverAlerts ==
    window_size < 50 =>
        /\ Len(requests) < 50
        /\ ~add_ret
        /\ ErrorRateAlerts = {}
        /\ "error_rate" \notin DOMAIN last_alerts

\* C20 witness: 51 requests were added to a window of 49; the last three
\* were errors, more than 2 percent of the window, and no alert was raised.
C20_Witness ==
    /\ window_size = 49
    /\ Len(added) = 51
    /\ Len(requests) = 49
    /\ ServerErrors(requests) = 3
    /\ entry.status = StrField(<<"5", "0", "3">>)
    /\ ~add_ret
    /\ intents = <<>>

====
